---- MODULE Spec2Model ----
(***************************************************************************)
(* wayback-archiver: the producer/consumer archiving pipeline of           *)
(* src/main.rs.  The main thread loads the result store, feeds or spawns   *)
(* the line source, then consumes the channel one URL at a time: dedup     *)
(* check, attempt loop with rate-limit backoff, store insert, periodic     *)
(* checkpoint, final output.                                               *)
(*                                                                         *)
(* Time is counted in seconds.  A line is a sequence of character codes.   *)
(* A panic of the spawned thread unwinds that thread only (the default     *)
(* panic strategy): its sender is dropped and the main thread goes on.     *)
(***************************************************************************)
EXTENDS Integers, Sequences, FiniteSets, TLC

\* ---------------------------------------------------------------- bounds
MaxLines == 2
MaxBatch == 27
MaxRateLimited == 2

\* ------------------------------------------------------- program constants
Day == 24 * 60 * 60
Duration_days(n) == n * Day
Duration_seconds(n) == n
\* main.rs:105  Duration::days(30 * 6)
FreshnessWindow == Duration_days(30 * 6)
\* main.rs:123  Duration::seconds(3)
Cooldown == Duration_seconds(3)
\* main.rs:132  Duration::seconds(15)
Backoff == Duration_seconds(15)
\* main.rs:147  % 25
CheckpointEvery == 25

\* ------------------------------------------------------------- strings
\* char::is_whitespace on the ASCII range: tab, LF, VT, FF, CR, space.
IsWhitespace(c) == c \in {9, 10, 11, 12, 13, 32}

RECURSIVE TrimStart(_)
TrimStart(s) ==
    IF s = <<>> THEN s
    ELSE IF IsWhitespace(Head(s)) THEN TrimStart(Tail(s)) ELSE s

RECURSIVE TrimEnd(_)
TrimEnd(s) ==
    IF s = <<>> THEN s
    ELSE IF IsWhitespace(s[Len(s)]) THEN TrimEnd(SubSeq(s, 1, Len(s) - 1)) ELSE s

\* Only the leading whitespace removed.
TrimLeadingOnly(s) == TrimStart(s)

\* main.rs:91  l.trim().to_string()
Trim(s) == TrimEnd(TrimStart(s))

\* Ord for String: lexicographic by code.
RECURSIVE StrLess(_, _)
StrLess(a, b) ==
    IF b = <<>> THEN FALSE
    ELSE IF a = <<>> THEN TRUE
    ELSE IF Head(a) # Head(b) THEN Head(a) < Head(b)
    ELSE StrLess(Tail(a), Tail(b))

\* ------------------------------------------------------ ArchivingResult
None == <<>>
Some(x) == <<x>>

\* main.rs:136-140  the record of a terminal failure
FailureResult(t) ==
    [last_archived |-> t, url |-> None, existing_snapshot |-> FALSE]

\* lib::archive_url, Ok(..): the record of a success.
SuccessResult(l, t, existing) ==
    [last_archived |-> t, url |-> Some(l), existing_snapshot |-> existing]

\* --------------------------------------------------- persisted snapshot
EmptyMap == [k \in {} |-> FailureResult(0)]

Insert(m, k, v) == [x \in (DOMAIN m) \cup {k} |-> IF x = k THEN v ELSE m[x]]

MinKey(S) == CHOOSE k \in S : \A j \in S : j = k \/ StrLess(k, j)

\* serde_json::to_string_pretty of a BTreeMap: the entries in key order.
Entries(m, S) ==
    LET rest[T \in SUBSET S] ==
            IF T = {} THEN <<>>
            ELSE <<[key |-> MinKey(T), value |-> m[MinKey(T)]]>>
                 \o rest[T \ {MinKey(T)}]
    IN  rest[S]

Encode(m) == [kind |-> "json", entries |-> Entries(m, DOMAIN m)]

\* serde_json::from_str into a BTreeMap (a later duplicate key wins).
RECURSIVE FromEntries(_)
FromEntries(es) ==
    IF es = <<>> THEN EmptyMap
    ELSE Insert(FromEntries(SubSeq(es, 1, Len(es) - 1)),
                es[Len(es)].key, es[Len(es)].value)

Decode(f) == FromEntries(f.entries)

\* The states of the file at the out path.
Absent == [kind |-> "absent", entries |-> <<>>]
Unreadable == [kind |-> "unreadable", entries |-> <<>>]
Malformed == [kind |-> "malformed", entries |-> <<>>]

\* ------------------------------------------------------------ the inputs
Path(p) == Some(p)

A == <<97>>
B == <<98>>
ShortLines == {A, <<32, 97, 32>>, B}
ShortInputs == UNION {[1..n -> ShortLines] : n \in 0..MaxLines}

\* A long input: distinct URLs, or distinct URLs with every ninth line
\* repeating the line before it.
Url(i) == <<96 + i>>
Distinct(n) == [i \in 1..n |-> Url(i)]
Repeating(n) == [i \in 1..n |-> Url(i - (i \div 9))]
BatchInputs == {Distinct(MaxBatch), Repeating(MaxBatch)}

\* An arbitrary wall-clock reading at process start.
StartTime == Duration_days(1000)
Ages == {Duration_days(10), Duration_days(179), Duration_days(180) - 1,
         Duration_days(180), Duration_days(180) + 1}

Single(k, v) == Insert(EmptyMap, k, v)
DiskStores ==
    {EmptyMap}
    \cup {Single(A, SuccessResult(A, StartTime - age, FALSE)) : age \in Ages}
    \cup {Single(A, FailureResult(StartTime - Duration_days(10)))}
    \cup {Insert(Single(B, SuccessResult(B, StartTime - Duration_days(200), TRUE)),
                 A, SuccessResult(A, StartTime - Duration_days(10), FALSE))}

\* A hand-edited snapshot: keys out of order, one of them given twice.
Unsorted ==
    [kind |-> "json",
     entries |-> << [key |-> B, value |-> FailureResult(StartTime - Duration_days(300))],
                    [key |-> A, value |-> SuccessResult(A, StartTime - Duration_days(10), TRUE)],
                    [key |-> B, value |-> FailureResult(StartTime - Duration_days(20))] >>]

MergeDisks == {Absent, Unreadable, Malformed, Unsorted} \cup {Encode(m) : m \in DiskStores}
OverwriteDisks == {Absent, Encode(Single(A, SuccessResult(A, StartTime - Duration_days(10), FALSE)))}

NoFile == [exists |-> FALSE, lines |-> <<>>]
FileOf(ls) == [exists |-> TRUE, lines |-> ls]

\* out, merge and the file found at the out path.
OutConfigs ==
    {[out |-> None, merge |-> m, disk |-> Absent] : m \in BOOLEAN}
    \cup {[out |-> Path("out"), merge |-> FALSE, disk |-> d] : d \in OverwriteDisks}
    \cup {[out |-> Path("out"), merge |-> TRUE, disk |-> d] : d \in MergeDisks}

\* urls, urls_file, the file found at that path, and standard input.
ShortSources ==
    {[urls |-> u, urls_file |-> f, file |-> FileOf(<<B>>), stdin |-> <<B>>] :
        u \in ShortInputs \ {<<>>}, f \in {None, Path("urls")}}
    \cup {[urls |-> <<>>, urls_file |-> Path("urls"), file |-> c, stdin |-> <<B>>] :
        c \in {NoFile} \cup {FileOf(ls) : ls \in ShortInputs}}
    \cup {[urls |-> <<>>, urls_file |-> None, file |-> NoFile, stdin |-> ls] :
        ls \in ShortInputs}

BatchSources ==
    {[urls |-> u, urls_file |-> None, file |-> NoFile, stdin |-> <<>>] : u \in BatchInputs}
    \cup {[urls |-> <<>>, urls_file |-> Path("urls"), file |-> FileOf(ls), stdin |-> <<>>] :
        ls \in BatchInputs}
BatchOutConfigs ==
    {[out |-> o, merge |-> FALSE, disk |-> Absent] : o \in {None, Path("out")}}

\* The Archive Client: the remote service itself ("any": every answer is
\* possible at every call), or a stub with a fixed answer ("tail": new
\* snapshots for the URLs before the 25th, failures from it on; "limited":
\* rate-limited at every call, followed as far as MaxRateLimited calls).
Stubs == {"new", "existing", "failed", "mixed", "tail"}

Configs ==
    {[o |-> o, s |-> s, stub |-> "any"] : o \in OutConfigs, s \in ShortSources}
    \cup {[o |-> o, s |-> s, stub |-> st] :
            o \in BatchOutConfigs, s \in BatchSources, st \in Stubs}

\* ------------------------------------------------------------- the state
VARIABLES
    opts,               \* Opts: out, merge, urls_file, urls
    file,               \* the file at opts.urls_file
    stdin,              \* the lines of standard input
    stub,               \* how the Archive Client answers
    disk,               \* the file at opts.out
    now,                \* Utc::now()
    urls,               \* the BTreeMap<String, ArchivingResult>
    queue,              \* the channel's buffer
    closed,             \* tx dropped
    total_lines_count,  \* the AtomicUsize
    producer,           \* where the spawned thread is
    pos,                \* lines the spawned thread has read
    pc,                 \* where the main thread is
    next_idx,           \* enumerate()'s counter
    line_idx,
    line,
    prefix,             \* the [index/total] shown for the current line
    result,             \* what archive_url returned
    num_archived,
    printed,            \* what println! wrote
    h                   \* history: what has happened so far

vars == <<opts, file, stdin, stub, disk, now, urls, queue, closed,
          total_lines_count, producer, pos, pc, next_idx, line_idx, line,
          prefix, result, num_archived, printed, h>>

env == <<opts, file, stdin, stub>>

NoResult == [ok |-> FALSE, err |-> "none", value |-> FailureResult(0)]

H0(d) ==
    [disk0 |-> d,          \* the file at out before the run
     abort |-> "none",      \* why the run was aborted
     invocations |-> [k \in {} |-> 0],  \* archive_url calls per key
     limited |-> [k \in {} |-> 0],      \* rate-limited answers per key
     written |-> [k \in {} |-> 0],      \* store inserts of this run per key
     first |-> EmptyMap,    \* the first record this run inserted per key
     failures |-> 0,        \* attempts resolved as terminal failures
     t0 |-> 0,              \* Utc::now() at the current line's dedup check
     dedup |-> [kind |-> "none", hit |-> FALSE, age |-> 0],
     calls |-> 0,           \* for the current line: archive_url calls,
     waits |-> 0,           \*   backoff waits,
     inserts |-> 0,         \*   store inserts
     cooldowns |-> 0,
     resolved |-> 0,        \* attempts resolved (success or failure)
     skipped |-> 0,
     checkpoints |-> <<>>,  \* resolved, at each intermediate write_results
     finals |-> 0,          \* final outputs (write_results or println!)
     opens |-> 0,           \* times the out file was opened for writing
     unsaved |-> 0,         \* inserts since the last completed write
     fileOpened |-> FALSE,
     stdinRead |-> FALSE,
     sent |-> <<>>,         \* the raw lines put on the channel, in order
     got |-> <<>>,          \* the raw lines taken from the channel, in order
     allCalls |-> 0,        \* archive_url calls of the whole run
     allWaits |-> 0,        \* backoff waits of the whole run
     answer |-> [k \in {} |-> "none"],  \* the answer that resolved each key
     at |-> [urls |-> EmptyMap, num_archived |-> 0, disk |-> d, opens |-> 0,
             checkpoints |-> <<>>, calls |-> 0, now |-> 0],
                            \* the state when the current line was dequeued
     wfail |-> [kind |-> "none", next_idx |-> 0, calls |-> 0]]
                            \* the failed write_results call, if any

\* The state at the start of main for the configuration c.
Start(c) ==
    /\ opts = [out |-> c.o.out, merge |-> c.o.merge,
               urls_file |-> c.s.urls_file, urls |-> c.s.urls]
    /\ file = c.s.file
    /\ stdin = c.s.stdin
    /\ stub = c.stub
    /\ disk = c.o.disk
    /\ now = StartTime
    /\ urls = EmptyMap
    /\ queue = <<>>
    /\ closed = FALSE
    /\ total_lines_count = 0
    /\ producer = "none"
    /\ pos = 0
    /\ pc = "load"
    /\ next_idx = 0
    /\ line_idx = 0
    /\ line = <<>>
    /\ prefix = [index |-> 0, total |-> 0]
    /\ result = NoResult
    /\ num_archived = 0
    /\ printed = <<>>
    /\ h = H0(c.o.disk)

Init == \E c \in Configs : Start(c)

\* -------------------------------------------------------- pure helpers
Running == pc \notin {"done", "aborted"}

\* The load with --merge ignored: every run starts empty.
LoadStoreNoMerge(o, d) == [err |-> "none", urls |-> EmptyMap]

\* The load with every error treated like "file not found".
LoadStoreLenient(o, d) ==
    IF o.merge /\ o.out # None /\ d.kind = "json"
    THEN [err |-> "none", urls |-> Decode(d)]
    ELSE [err |-> "none", urls |-> EmptyMap]

\* main.rs:39-50  the store the run starts from, or the error that ends it
LoadStore(o, d) ==
    IF ~o.merge THEN [err |-> "none", urls |-> EmptyMap]
    ELSE IF o.out = None THEN [err |-> "panic", urls |-> EmptyMap]
    ELSE IF d.kind = "json" THEN [err |-> "none", urls |-> Decode(d)]
    ELSE IF d.kind = "absent" THEN [err |-> "none", urls |-> EmptyMap]
    ELSE IF d.kind = "malformed" THEN [err |-> "decode", urls |-> EmptyMap]
    ELSE [err |-> "read", urls |-> EmptyMap]

\* The dedup rule with the window's end included.
IsFreshInclusive(m, l, t) ==
    /\ l \in DOMAIN m
    /\ (t - m[l].last_archived) <= FreshnessWindow

\* The dedup rule made to retry the records of failed attempts.
IsFreshUnlessFailed(m, l, t) ==
    /\ l \in DOMAIN m
    /\ m[l].url # None
    /\ (t - m[l].last_archived) < FreshnessWindow

\* main.rs:103-109  the dedup rule
IsFresh(m, l, t) ==
    /\ l \in DOMAIN m
    /\ (t - m[l].last_archived) < FreshnessWindow

\* main.rs:147-148  whether this resolved line is followed by a checkpoint
CheckpointDue(n, o) ==
    /\ (n + 1) % CheckpointEvery = 0
    /\ o.out # None

\* main.rs:164-176  write_results: w is how the file system answers
WriteOutcomes == {"ok", "open", "write"}
write_results(results, d, w) ==
    CASE w = "ok" -> [ok |-> TRUE, opened |-> TRUE, disk |-> Encode(results)]
      [] w = "open" -> [ok |-> FALSE, opened |-> FALSE, disk |-> d]
      [] w = "write" -> [ok |-> FALSE, opened |-> TRUE, disk |-> Malformed]

\* The answers the Archive Client may give to the next call for line l,
\* after it has answered rate-limited n times for it.
Answers(st, l, n) ==
    CASE st = "any" ->
            {"new", "existing", "failed"}
            \cup (IF n < MaxRateLimited THEN {"limited"} ELSE {})
      [] st = "mixed" ->
            IF l = <<>> THEN {"failed"}
            ELSE {<<"new", "existing", "failed">>[(Head(l) % 3) + 1]}
      [] st = "limited" ->
            IF n < MaxRateLimited THEN {"limited"} ELSE {}
      [] st = "tail" ->
            IF l # <<>> /\ Head(l) < Head(Url(CheckpointEvery)) THEN {"new"}
            ELSE {"failed"}
      [] OTHER -> {st}

\* lib::archive_url: the Result it returns at time t for answer a.
archive_url(l, t, a) ==
    CASE a \in {"new", "existing"} ->
            [ok |-> TRUE, err |-> "none", value |-> SuccessResult(l, t, a = "existing")]
      [] a = "limited" ->
            [ok |-> FALSE, err |-> "BandwidthExceeded", value |-> FailureResult(0)]
      [] OTHER ->
            [ok |-> FALSE, err |-> "Other", value |-> FailureResult(0)]

Bump(f, k) == [x \in (DOMAIN f) \cup {k} |-> IF x \in DOMAIN f THEN
                                                IF x = k THEN f[x] + 1 ELSE f[x]
                                             ELSE 1]

Once(m, k, v) == IF k \in DOMAIN m THEN m ELSE Insert(m, k, v)

\* The lines the spawned thread reads: the file, or standard input.
Source == IF opts.urls_file # None THEN file.lines ELSE stdin

\* ------------------------------------------------------- the main thread
\* main.rs:39-50
Load ==
    /\ pc = "load"
    /\ LET r == LoadStore(opts, disk)
       IN  IF r.err = "none"
           THEN /\ urls' = r.urls
                /\ pc' = "source"
                /\ h' = h
           ELSE /\ urls' = urls
                /\ pc' = "aborted"
                /\ h' = [h EXCEPT !.abort = r.err]
    /\ UNCHANGED <<env, disk, now, queue, closed, total_lines_count, producer,
                   pos, next_idx, line_idx, line, prefix, result,
                   num_archived, printed>>

\* main.rs:56-62  literal URLs: all sent, counted, channel closed
SendLiterals ==
    /\ pc = "source"
    /\ opts.urls # <<>>
    /\ queue' = queue \o opts.urls
    /\ total_lines_count' = total_lines_count + Len(opts.urls)
    /\ closed' = TRUE
    /\ pc' = "recv"
    /\ h' = [h EXCEPT !.sent = @ \o opts.urls]
    /\ UNCHANGED <<env, disk, now, urls, producer, pos, next_idx, line_idx,
                   line, prefix, result, num_archived, printed>>

\* The thread spawned whether or not literal URLs were given.
SpawnProducerAlways ==
    /\ pc = "source"
    /\ producer' = "spawned"
    /\ pc' = "recv"
    /\ UNCHANGED <<env, disk, now, urls, queue, closed, total_lines_count,
                   pos, next_idx, line_idx, line, prefix, result,
                   num_archived, printed, h>>

\* main.rs:64-88  thread::spawn
SpawnProducer ==
    /\ pc = "source"
    /\ opts.urls = <<>>
    /\ producer' = "spawned"
    /\ pc' = "recv"
    /\ UNCHANGED <<env, disk, now, urls, queue, closed, total_lines_count,
                   pos, next_idx, line_idx, line, prefix, result,
                   num_archived, printed, h>>

\* The iterator yielding the newest line of the channel instead of the oldest.
RecvLast ==
    /\ pc = "recv"
    /\ queue # <<>>
    /\ line' = Trim(queue[Len(queue)])
    /\ queue' = SubSeq(queue, 1, Len(queue) - 1)
    /\ line_idx' = next_idx
    /\ next_idx' = next_idx + 1
    /\ pc' = "prefix"
    /\ h' = [h EXCEPT !.calls = 0, !.waits = 0, !.inserts = 0, !.cooldowns = 0,
                      !.dedup = [kind |-> "none", hit |-> FALSE, age |-> 0],
                      !.got = Append(@, queue[Len(queue)]),
                      !.at = [urls |-> urls, num_archived |-> num_archived,
                              disk |-> disk, opens |-> h.opens,
                              checkpoints |-> h.checkpoints,
                              calls |-> h.allCalls, now |-> now]]
    /\ UNCHANGED <<env, disk, now, urls, closed, total_lines_count, producer,
                   pos, prefix, result, num_archived, printed>>

\* main.rs:91  the iterator yields the next line, trimmed and numbered
Recv ==
    /\ pc = "recv"
    /\ queue # <<>>
    /\ line' = Trim(Head(queue))
    /\ queue' = Tail(queue)
    /\ line_idx' = next_idx
    /\ next_idx' = next_idx + 1
    /\ pc' = "prefix"
    /\ h' = [h EXCEPT !.calls = 0, !.waits = 0, !.inserts = 0, !.cooldowns = 0,
                      !.dedup = [kind |-> "none", hit |-> FALSE, age |-> 0],
                      !.got = Append(@, Head(queue)),
                      !.at = [urls |-> urls, num_archived |-> num_archived,
                              disk |-> disk, opens |-> h.opens,
                              checkpoints |-> h.checkpoints,
                              calls |-> h.allCalls, now |-> now]]
    /\ UNCHANGED <<env, disk, now, urls, closed, total_lines_count, producer,
                   pos, prefix, result, num_archived, printed>>

\* A skip that falls through to the checkpoint test instead of `continue`.
DedupFallThrough ==
    /\ pc = "prefix"
    /\ prefix' = [index |-> line_idx + 1, total |-> total_lines_count]
    /\ LET hit == line \in DOMAIN urls
           d == [hit |-> hit,
                 age |-> IF hit THEN now - urls[line].last_archived ELSE 0]
       IN  IF IsFresh(urls, line, now)
           THEN /\ pc' = "check"
                /\ h' = [h EXCEPT !.dedup = [kind |-> "skip"] @@ d,
                                  !.skipped = @ + 1, !.t0 = now]
           ELSE /\ pc' = "attempt"
                /\ h' = [h EXCEPT !.dedup = [kind |-> "attempt"] @@ d,
                                  !.t0 = now]
    /\ UNCHANGED <<env, disk, now, urls, queue, closed, total_lines_count,
                   producer, pos, next_idx, line_idx, line, result,
                   num_archived, printed>>

\* main.rs:92-111  the progress prefix, then the dedup check
Dedup ==
    /\ pc = "prefix"
    /\ prefix' = [index |-> line_idx + 1, total |-> total_lines_count]
    /\ LET hit == line \in DOMAIN urls
           d == [hit |-> hit,
                 age |-> IF hit THEN now - urls[line].last_archived ELSE 0]
       IN  IF IsFresh(urls, line, now)
           THEN /\ pc' = "recv"
                /\ h' = [h EXCEPT !.dedup = [kind |-> "skip"] @@ d,
                                  !.skipped = @ + 1, !.t0 = now]
           ELSE /\ pc' = "attempt"
                /\ h' = [h EXCEPT !.dedup = [kind |-> "attempt"] @@ d,
                                  !.t0 = now]
    /\ UNCHANGED <<env, disk, now, urls, queue, closed, total_lines_count,
                   producer, pos, next_idx, line_idx, line, result,
                   num_archived, printed>>

\* main.rs:113  archive_url(&line).await
Invoke ==
    /\ pc = "attempt"
    /\ \E a \in Answers(stub, line, h.waits) :
          /\ result' = archive_url(line, now, a)
          /\ h' = [h EXCEPT !.calls = @ + 1, !.invocations = Bump(@, line),
                            !.limited = IF a = "limited" THEN Bump(@, line) ELSE @,
                            !.allCalls = @ + 1,
                            !.answer = IF a = "limited" THEN @
                                       ELSE [x \in (DOMAIN @) \cup {line} |->
                                                IF x = line THEN a ELSE @[x]]]
    /\ pc' = "answered"
    /\ UNCHANGED <<env, disk, now, urls, queue, closed, total_lines_count,
                   producer, pos, next_idx, line_idx, line, prefix,
                   num_archived, printed>>

\* The cooldown taken after every success, existing snapshot or not.
OnSuccessAlwaysCool ==
    /\ pc = "answered"
    /\ result.ok
    /\ now' = now + Cooldown
    /\ h' = [h EXCEPT !.cooldowns = @ + 1,
                      !.inserts = @ + 1, !.resolved = @ + 1,
                      !.unsaved = @ + 1,
                      !.written = Bump(@, line),
                      !.first = Once(@, line, result.value)]
    /\ num_archived' = num_archived + 1
    /\ urls' = Insert(urls, line, result.value)
    /\ pc' = "check"
    /\ UNCHANGED <<env, disk, queue, closed, total_lines_count, producer, pos,
                   next_idx, line_idx, line, prefix, result, printed>>

\* main.rs:114-128, 143-144  Ok(success)
OnSuccess ==
    /\ pc = "answered"
    /\ result.ok
    /\ LET cool == ~result.value.existing_snapshot
       IN  /\ now' = IF cool THEN now + Cooldown ELSE now
           /\ h' = [h EXCEPT !.cooldowns = IF cool THEN @ + 1 ELSE @,
                             !.inserts = @ + 1, !.resolved = @ + 1,
                             !.unsaved = @ + 1,
                             !.written = Bump(@, line),
                             !.first = Once(@, line, result.value)]
    /\ num_archived' = num_archived + 1
    /\ urls' = Insert(urls, line, result.value)
    /\ pc' = "check"
    /\ UNCHANGED <<env, disk, queue, closed, total_lines_count, producer, pos,
                   next_idx, line_idx, line, prefix, result, printed>>

\* A rate-limited answer handled like any other error: recorded, not retried.
OnBandwidthExceededGiveUp ==
    /\ pc = "answered"
    /\ ~result.ok
    /\ result.err = "BandwidthExceeded"
    /\ urls' = Insert(urls, line, FailureResult(now))
    /\ pc' = "check"
    /\ h' = [h EXCEPT !.inserts = @ + 1, !.resolved = @ + 1, !.unsaved = @ + 1,
                      !.failures = @ + 1,
                      !.written = Bump(@, line),
                      !.first = Once(@, line, FailureResult(now))]
    /\ UNCHANGED <<env, disk, now, queue, closed, total_lines_count, producer,
                   pos, next_idx, line_idx, line, prefix, result,
                   num_archived, printed>>

\* main.rs:129-134  Err(BandwidthExceeded): wait, then the same line again
OnBandwidthExceeded ==
    /\ pc = "answered"
    /\ ~result.ok
    /\ result.err = "BandwidthExceeded"
    /\ now' = now + Backoff
    /\ pc' = "attempt"
    /\ h' = [h EXCEPT !.waits = @ + 1, !.allWaits = @ + 1]
    /\ UNCHANGED <<env, disk, urls, queue, closed, total_lines_count, producer,
                   pos, next_idx, line_idx, line, prefix, result,
                   num_archived, printed>>

\* Any other Err propagated with `?` instead of recorded.
OnFailureAbort ==
    /\ pc = "answered"
    /\ ~result.ok
    /\ result.err # "BandwidthExceeded"
    /\ pc' = "aborted"
    /\ h' = [h EXCEPT !.abort = "archive", !.failures = @ + 1]
    /\ UNCHANGED <<env, disk, now, urls, queue, closed, total_lines_count,
                   producer, pos, next_idx, line_idx, line, prefix, result,
                   num_archived, printed>>

\* main.rs:129, 135-144  any other Err
OnFailure ==
    /\ pc = "answered"
    /\ ~result.ok
    /\ result.err # "BandwidthExceeded"
    /\ urls' = Insert(urls, line, FailureResult(now))
    /\ pc' = "check"
    /\ h' = [h EXCEPT !.inserts = @ + 1, !.resolved = @ + 1, !.unsaved = @ + 1,
                      !.failures = @ + 1,
                      !.written = Bump(@, line),
                      !.first = Once(@, line, FailureResult(now))]
    /\ UNCHANGED <<env, disk, now, queue, closed, total_lines_count, producer,
                   pos, next_idx, line_idx, line, prefix, result,
                   num_archived, printed>>

\* The intermediate write with its error dropped instead of propagated.
CheckpointIgnoreError ==
    /\ pc = "check"
    /\ CheckpointDue(num_archived, opts)
    /\ \E w \in WriteOutcomes :
          LET r == write_results(urls, disk, w)
          IN  /\ disk' = r.disk
              /\ pc' = "recv"
              /\ h' = [h EXCEPT !.checkpoints = Append(@, h.resolved),
                                !.opens = IF r.opened THEN @ + 1 ELSE @,
                                !.unsaved = IF r.ok THEN 0 ELSE @,
                                !.wfail = IF r.ok THEN @
                                          ELSE [kind |-> "checkpoint",
                                                next_idx |-> next_idx,
                                                calls |-> h.allCalls]]
    /\ UNCHANGED <<env, now, urls, queue, closed, total_lines_count, producer,
                   pos, next_idx, line_idx, line, prefix, result,
                   num_archived, printed>>

\* main.rs:147-152  the intermediate write
Checkpoint ==
    /\ pc = "check"
    /\ CheckpointDue(num_archived, opts)
    /\ \E w \in WriteOutcomes :
          LET r == write_results(urls, disk, w)
          IN  /\ disk' = r.disk
              /\ pc' = IF r.ok THEN "recv" ELSE "aborted"
              /\ h' = [h EXCEPT !.checkpoints = Append(@, h.resolved),
                                !.opens = IF r.opened THEN @ + 1 ELSE @,
                                !.unsaved = IF r.ok THEN 0 ELSE @,
                                !.abort = IF r.ok THEN @ ELSE "checkpoint",
                                !.wfail = IF r.ok THEN @
                                          ELSE [kind |-> "checkpoint",
                                                next_idx |-> next_idx,
                                                calls |-> h.allCalls]]
    /\ UNCHANGED <<env, now, urls, queue, closed, total_lines_count, producer,
                   pos, next_idx, line_idx, line, prefix, result,
                   num_archived, printed>>

\* main.rs:147-153  no intermediate write is due
NoCheckpoint ==
    /\ pc = "check"
    /\ ~CheckpointDue(num_archived, opts)
    /\ pc' = "recv"
    /\ UNCHANGED <<env, disk, now, urls, queue, closed, total_lines_count,
                   producer, pos, next_idx, line_idx, line, prefix, result,
                   num_archived, printed, h>>

\* The iterator ending as soon as the channel is empty (try_iter).
DrainedNoClose == queue = <<>>

\* main.rs:91  the iterator ends: the channel is empty and disconnected
Drained == queue = <<>> /\ closed

\* main.rs:155-156  the final write
FinalWrite ==
    /\ pc = "recv"
    /\ Drained
    /\ opts.out # None
    /\ \E w \in WriteOutcomes :
          LET r == write_results(urls, disk, w)
          IN  /\ disk' = r.disk
              /\ pc' = IF r.ok THEN "done" ELSE "aborted"
              /\ h' = [h EXCEPT !.finals = @ + 1,
                                !.opens = IF r.opened THEN @ + 1 ELSE @,
                                !.unsaved = IF r.ok THEN 0 ELSE @,
                                !.abort = IF r.ok THEN @ ELSE "final",
                                !.wfail = IF r.ok THEN @
                                          ELSE [kind |-> "final",
                                                next_idx |-> next_idx,
                                                calls |-> h.allCalls]]
    /\ UNCHANGED <<env, now, urls, queue, closed, total_lines_count, producer,
                   pos, next_idx, line_idx, line, prefix, result,
                   num_archived, printed>>

\* main.rs:157-159  no out path: the store is printed
FinalPrint ==
    /\ pc = "recv"
    /\ Drained
    /\ opts.out = None
    /\ printed' = Append(printed, Encode(urls))
    /\ pc' = "done"
    /\ h' = [h EXCEPT !.finals = @ + 1]
    /\ UNCHANGED <<env, disk, now, urls, queue, closed, total_lines_count,
                   producer, pos, next_idx, line_idx, line, prefix, result,
                   num_archived>>

\* ---------------------------------------------------- the spawned thread
\* main.rs:71-73  fs::File::open(path).expect(..): a panic drops tx
OpenFile ==
    /\ Running
    /\ producer = "spawned"
    /\ opts.urls_file # None
    /\ IF file.exists
       THEN /\ producer' = "read"
            /\ closed' = closed
            /\ h' = [h EXCEPT !.fileOpened = TRUE]
       ELSE /\ producer' = "panicked"
            /\ closed' = TRUE
            /\ h' = h
    /\ UNCHANGED <<env, disk, now, urls, queue, total_lines_count, pos, pc,
                   next_idx, line_idx, line, prefix, result, num_archived,
                   printed>>

\* main.rs:80-82  io::stdin().lock()
LockStdin ==
    /\ Running
    /\ producer = "spawned"
    /\ opts.urls_file = None
    /\ producer' = "read"
    /\ h' = [h EXCEPT !.stdinRead = TRUE]
    /\ UNCHANGED <<env, disk, now, urls, queue, closed, total_lines_count, pos,
                   pc, next_idx, line_idx, line, prefix, result, num_archived,
                   printed>>

\* main.rs:74-75, 82-83  the next line is read and sent
ProducerSend ==
    /\ Running
    /\ producer = "read"
    /\ pos < Len(Source)
    /\ queue' = Append(queue, Source[pos + 1])
    /\ pos' = pos + 1
    /\ producer' = "count"
    /\ h' = [h EXCEPT !.sent = Append(@, Source[pos + 1])]
    /\ UNCHANGED <<env, disk, now, urls, closed, total_lines_count, pc,
                   next_idx, line_idx, line, prefix, result, num_archived,
                   printed>>

\* The thread going on to the next line without counting the one it sent.
ProducerCountSkipped ==
    /\ Running
    /\ producer = "count"
    /\ producer' = "read"
    /\ UNCHANGED <<env, disk, now, urls, queue, closed, total_lines_count, pos,
                   pc, next_idx, line_idx, line, prefix, result, num_archived,
                   printed, h>>

\* main.rs:76, 84  total_lines_count.fetch_add(1)
ProducerCount ==
    /\ Running
    /\ producer = "count"
    /\ total_lines_count' = total_lines_count + 1
    /\ producer' = "read"
    /\ UNCHANGED <<env, disk, now, urls, queue, closed, pos, pc, next_idx,
                   line_idx, line, prefix, result, num_archived, printed, h>>

\* The closure ending with its Sender kept alive.
ProducerEndKeepsTx ==
    /\ Running
    /\ producer = "read"
    /\ pos = Len(Source)
    /\ producer' = "done"
    /\ UNCHANGED <<env, disk, now, urls, queue, closed, total_lines_count, pos,
                   pc, next_idx, line_idx, line, prefix, result, num_archived,
                   printed, h>>

\* main.rs:77-78, 85-87  the source is exhausted: the closure ends, tx is dropped
ProducerEnd ==
    /\ Running
    /\ producer = "read"
    /\ pos = Len(Source)
    /\ closed' = TRUE
    /\ producer' = "done"
    /\ UNCHANGED <<env, disk, now, urls, queue, total_lines_count, pos, pc,
                   next_idx, line_idx, line, prefix, result, num_archived,
                   printed, h>>

Next ==
    \/ Load
    \/ SendLiterals
    \/ SpawnProducer
    \/ Recv
    \/ Dedup
    \/ Invoke
    \/ OnSuccess
    \/ OnBandwidthExceeded
    \/ OnFailure
    \/ Checkpoint
    \/ NoCheckpoint
    \/ FinalWrite
    \/ FinalPrint
    \/ OpenFile
    \/ LockStdin
    \/ ProducerSend
    \/ ProducerCount
    \/ ProducerEnd

Spec == Init /\ [][Next]_vars

\* ------------------------------------------------ runs under fair scheduling
\* The runs followed to their end: streamed and literal input, a missing
\* urls_file, a merge that fails or makes a line fresh, a client that
\* answers anything or rate-limited only, and one literal run long enough
\* for an intermediate write.
LiveOut == [out |-> Path("out"), merge |-> FALSE, disk |-> Absent]
LiveConfigs ==
    {[o |-> o, s |-> s, stub |-> "any"] :
        o \in {[out |-> None, merge |-> FALSE, disk |-> Absent], LiveOut},
        s \in {[urls |-> <<>>, urls_file |-> Path("urls"),
                file |-> FileOf(<<A, B>>), stdin |-> <<>>],
               [urls |-> <<>>, urls_file |-> Path("urls"),
                file |-> NoFile, stdin |-> <<>>],
               [urls |-> <<>>, urls_file |-> None,
                file |-> NoFile, stdin |-> <<<<32, 97, 32>>, A>>]}}
    \cup {[o |-> [out |-> Path("out"), merge |-> TRUE, disk |-> d],
           s |-> [urls |-> <<B, A>>, urls_file |-> None, file |-> NoFile,
                  stdin |-> <<>>],
           stub |-> "any"] :
            d \in {Malformed,
                   Encode(Single(A, SuccessResult(A, StartTime - Duration_days(10), FALSE)))}}
    \cup {[o |-> LiveOut, s |-> s, stub |-> "limited"] :
            s \in {[urls |-> <<A>>, urls_file |-> None, file |-> NoFile,
                    stdin |-> <<>>],
                   [urls |-> <<>>, urls_file |-> Path("urls"),
                    file |-> FileOf(<<A, B>>), stdin |-> <<>>]}}
    \cup {[o |-> LiveOut,
           s |-> [urls |-> Distinct(CheckpointEvery), urls_file |-> None,
                  file |-> NoFile, stdin |-> <<>>],
           stub |-> "new"]}

LiveInit == \E c \in LiveConfigs : Start(c)

\* main.rs:33-161  a step of the main thread (the tokio main task)
MainStep ==
    \/ Load
    \/ SendLiterals
    \/ SpawnProducer
    \/ Recv
    \/ Dedup
    \/ Invoke
    \/ OnSuccess
    \/ OnBandwidthExceeded
    \/ OnFailure
    \/ Checkpoint
    \/ NoCheckpoint
    \/ FinalWrite
    \/ FinalPrint

\* main.rs:64-88  a step of the spawned thread
ProducerStep ==
    \/ OpenFile
    \/ LockStdin
    \/ ProducerSend
    \/ ProducerCount
    \/ ProducerEnd

\* Both threads are scheduled again and again while they can take a step.
LiveSpec ==
    /\ LiveInit
    /\ [][Next]_vars
    /\ WF_vars(MainStep)
    /\ WF_vars(ProducerStep)

\* ================================================================ claims
Keys(f) == DOMAIN f
Count(f, k) == IF k \in DOMAIN f THEN f[k] ELSE 0

\* The current line has a record no older than 180 days less one second.
WithinWindow == line \in DOMAIN urls /\ now - urls[line].last_archived < 180 * 86400

\* C1: the dequeued, trimmed line is skipped if and only if the store holds
\* a record under that key whose age is strictly less than 180 days; every
\* line that reaches the attempt loop was judged not fresh.
C1_DedupRule ==
    /\ (pc = "recv" /\ h.dedup.kind = "skip") => WithinWindow
    /\ (pc = "attempt" /\ h.calls = 0) => ~WithinWindow
    /\ pc \in {"attempt", "answered", "check"} => h.dedup.kind = "attempt"
    /\ h.dedup.kind = "skip" => (h.dedup.hit /\ h.dedup.age < 180 * 86400)
    /\ h.dedup.kind = "attempt" => (~h.dedup.hit \/ h.dedup.age >= 180 * 86400)

\* A record aged exactly 180 days was found and the line was attempted.
C1_Witness ==
    /\ h.dedup.kind = "attempt"
    /\ h.dedup.hit
    /\ h.dedup.age = 180 * 86400
    /\ h.calls = 1

\* C2: within one run (always shorter than 180 days here) no key is
\* resolved twice: the client is never invoked for a key this run has
\* already written, every call beyond the first for a key follows a
\* rate-limited answer, and the record of the first occurrence stays as
\* written, whether it was a success or a terminal failure.
C2_Idempotent ==
    /\ now - StartTime < 180 * 86400
    /\ \A k \in Keys(h.written) :
          /\ h.written[k] = 1
          /\ urls[k] = h.first[k]
          /\ h.invocations[k] = Count(h.limited, k) + 1
    /\ \A k \in Keys(h.invocations) :
          h.invocations[k] <= Count(h.limited, k) + 1
    /\ (pc \in {"attempt", "answered"}) => line \notin Keys(h.written)
    /\ (h.dedup.kind = "skip" /\ pc = "recv") => h.calls = 0

\* The second occurrence of a line whose first occurrence failed is skipped.
C2_Witness ==
    /\ pc = "recv"
    /\ h.dedup.kind = "skip"
    /\ line \in Keys(h.written)
    /\ urls[line].url = None
    /\ h.invocations[line] = 1

\* C3: while the client answers rate-limited the same line is called again
\* after one wait of 15 seconds per answer and the store is not written;
\* when it then succeeds, calls = waits + 1 and one success record is
\* written.  A rate-limited answer never resolves a line.
C3_RateLimitRetry ==
    /\ pc = "attempt" => (h.calls = h.waits /\ h.inserts = 0
                          /\ now = h.t0 + 15 * h.waits)
    /\ pc = "answered" => (h.calls = h.waits + 1 /\ h.inserts = 0
                           /\ now = h.t0 + 15 * h.waits)
    /\ (pc = "check" /\ result.ok) =>
          /\ h.calls = h.waits + 1
          /\ h.inserts = 1
          /\ urls[line] = result.value
          /\ urls[line].url # None
          /\ now = h.t0 + 15 * h.waits + 3 * h.cooldowns
    /\ (pc \in {"attempt", "answered", "check"}) =>
          Count(h.limited, line) >= h.waits
    /\ (pc = "attempt" /\ h.calls > 0) => result.err = "BandwidthExceeded"
    /\ pc = "check" => result.err # "BandwidthExceeded"

\* Rate-limited twice, then a success: three calls, two waits, one record.
C3_Witness ==
    /\ pc = "check"
    /\ result.ok
    /\ h.waits = 2
    /\ h.calls = 3
    /\ h.inserts = 1
    /\ now = h.t0 + 30

\* C4: a failure other than rate-limited ends the attempt loop with one
\* record (last_archived = now, no archived URL, not an existing snapshot),
\* aborts nothing, and the run goes on to its final output.
C4_TerminalFailure ==
    /\ (pc = "check" /\ ~result.ok) =>
          /\ h.calls = h.waits + 1
          /\ h.inserts = 1
          /\ urls[line] = [last_archived |-> now, url |-> <<>>,
                           existing_snapshot |-> FALSE]
    /\ h.abort \in {"none", "panic", "read", "decode", "checkpoint", "final"}
    /\ h.failures <= h.resolved
    /\ pc = "done" => h.finals = 1

\* A run of two lines: the first failed, the second was archived, and the
\* final output was made.
C4_Witness ==
    /\ pc = "done"
    /\ h.failures = 1
    /\ h.resolved = 2
    /\ result.ok
    /\ h.finals = 1
    /\ Cardinality(Keys(urls)) = 2

\* C5: with an out path, no skip and only successes, the intermediate
\* writes happen exactly after the 25th, 50th, ... resolved line.
C5_Cadence ==
    (opts.out # None /\ h.skipped = 0 /\ h.failures = 0) =>
        /\ \A i \in DOMAIN h.checkpoints : h.checkpoints[i] = 25 * i
        /\ pc = "recv" => Len(h.checkpoints) = h.resolved \div 25

\* The record the run loaded for k was archived 10 days before the start.
Loaded == Decode(h.disk0)
TenDaysOld(k) == StartTime - Loaded[k].last_archived = 10 * 86400

\* C6: with merge, a loaded record 10 days old is never attempted and
\* stays as loaded in the store and in the final file, next to the records
\* this run wrote; without merge the run starts empty whatever the out
\* file holds, a line is skipped only for a record of this run, and the
\* final file holds exactly this run's records.
C6_Merge ==
    /\ (opts.merge /\ opts.out # None /\ h.disk0.kind = "json"
        /\ pc \notin {"load", "aborted"}) =>
          \A k \in Keys(Loaded) :
              TenDaysOld(k) =>
                  /\ k \notin Keys(h.invocations)
                  /\ k \in Keys(urls)
                  /\ urls[k] = Loaded[k]
                  /\ pc = "done" => (k \in Keys(Decode(disk))
                                     /\ Decode(disk)[k] = Loaded[k])
    /\ (opts.merge /\ pc = "done") =>
          \A k \in Keys(h.written) :
              k \in Keys(Decode(disk)) /\ Decode(disk)[k] = h.first[k]
    /\ ~opts.merge =>
          /\ pc = "source" => urls = EmptyMap
          /\ Keys(urls) = Keys(h.written)
          /\ h.dedup.kind = "skip" => line \in Keys(h.written)
          /\ (pc = "done" /\ opts.out # None) =>
                /\ disk.kind = "json"
                /\ Keys(Decode(disk)) = Keys(h.written)
                /\ \A k \in Keys(h.written) : Decode(disk)[k] = h.first[k]

\* A merge run over [A, B] on a file holding A, 10 days old: at the end the
\* file holds A as loaded and a record for B, and A was never attempted.
C6_Witness ==
    /\ opts.merge
    /\ pc = "done"
    /\ Keys(Loaded) = {A}
    /\ TenDaysOld(A)
    /\ next_idx = 2
    /\ h.skipped = 1
    /\ Keys(h.invocations) = {B}
    /\ Keys(Decode(disk)) = {A, B}
    /\ Decode(disk)[A] = Loaded[A]
    /\ Decode(disk)[B].last_archived >= StartTime

\* The lines put on the channel so far.
Enqueued ==
    IF opts.urls # <<>>
    THEN IF pc \in {"load", "source"} THEN 0 ELSE Len(opts.urls)
    ELSE pos

\* C7: a run makes at most one final output and a finished run exactly
\* one; it is made with the channel closed and empty, every enqueued line
\* dequeued and skipped or resolved.  With an out path it is a write of the
\* store to the file; without one the store is printed once and no file is
\* ever opened for writing.
C7_FinalOutput ==
    /\ h.finals <= 1
    /\ pc = "done" => h.finals = 1
    /\ h.finals = 1 =>
          /\ pc \in {"done", "aborted"}
          /\ queue = <<>>
          /\ closed
          /\ producer \in {"none", "done", "panicked"}
          /\ next_idx = Enqueued
          /\ h.resolved + h.skipped = next_idx
    /\ opts.out = None =>
          /\ h.opens = 0
          /\ h.checkpoints = <<>>
          /\ disk = h.disk0
          /\ Len(printed) = h.finals
          /\ pc = "done" => printed = <<Encode(urls)>>
    /\ opts.out # None =>
          /\ printed = <<>>
          /\ pc = "done" => disk = Encode(urls)

\* A streamed run of two lines without an out path has printed its store.
C7_Witness ==
    /\ pc = "done"
    /\ opts.out = None
    /\ producer = "done"
    /\ pos = 2
    /\ h.resolved = 2
    /\ Len(printed) = 1
    /\ Cardinality(Keys(urls)) = 2

\* The configured urls_file could not be opened.
InputUnreadable ==
    /\ opts.urls = <<>>
    /\ opts.urls_file # None
    /\ ~file.exists
    /\ producer = "panicked"

\* C8: when the urls_file cannot be opened, a run with an out path aborts
\* with a failure, the client is never invoked and the file at out keeps
\* its content.
C8_UnreadableInputFatal ==
    (InputUnreadable /\ opts.out # None) =>
        /\ Keys(h.invocations) = {}
        /\ disk = h.disk0
        /\ h.opens = 0
        /\ pc # "done"

\* C9: with an out path, at most 25 lines have been written to the store
\* since the last completed write of the file.
C9_BoundedLoss == opts.out # None => h.unsaved <= 25

\* C10: in merge mode a missing out file gives an empty store and a normal
\* run; an unreadable or undecodable one ends the run before anything is
\* enqueued, dequeued, attempted or written.
C10_SnapshotLoad ==
    (opts.merge /\ opts.out # None /\ pc # "load") =>
        /\ h.disk0.kind = "absent" =>
              /\ h.abort \notin {"panic", "read", "decode"}
              /\ pc = "source" => urls = EmptyMap
              /\ Keys(urls) = Keys(h.written)
        /\ h.disk0.kind \in {"unreadable", "malformed"} =>
              /\ pc = "aborted"
              /\ h.abort \in {"read", "decode"}
              /\ queue = <<>>
              /\ ~closed
              /\ producer = "none"
              /\ pos = 0
              /\ next_idx = 0
              /\ Keys(h.invocations) = {}
              /\ h.opens = 0
              /\ disk = h.disk0

\* A merge run on an undecodable out file has been aborted.
C10_Witness ==
    /\ opts.merge
    /\ h.disk0.kind = "malformed"
    /\ pc = "aborted"
    /\ h.abort = "decode"
    /\ opts.urls # <<>>

\* C11: once a write_results call has failed the run is aborted: nothing
\* more is dequeued, the client is not called again, and after a failed
\* intermediate write no final output is made.
C11_WriteFailureFatal ==
    /\ h.wfail.kind # "none" =>
          /\ pc = "aborted"
          /\ h.abort = h.wfail.kind
          /\ next_idx = h.wfail.next_idx
          /\ h.allCalls = h.wfail.calls
    /\ h.wfail.kind = "checkpoint" => (h.finals = 0 /\ printed = <<>>)
    /\ h.wfail.kind = "final" => h.finals = 1
    /\ (pc = "aborted" /\ h.abort \in {"checkpoint", "final"}) =>
          h.wfail.kind = h.abort

\* An intermediate write failed with lines still waiting on the channel.
C11_Witness ==
    /\ h.wfail.kind = "checkpoint"
    /\ pc = "aborted"
    /\ queue # <<>>
    /\ h.resolved = 24

\* C12: one source feeds the channel.  With literal URLs exactly they are
\* sent, in order, and the channel is closed, while no thread is spawned
\* and neither the file nor standard input is read; the file is read only
\* without literal URLs, standard input only without literal URLs and
\* without urls_file.
C12_SourcePriority ==
    /\ opts.urls # <<>> =>
          /\ producer = "none"
          /\ pos = 0
          /\ ~h.fileOpened
          /\ ~h.stdinRead
          /\ pc \in {"load", "source"} => (h.sent = <<>> /\ ~closed)
          /\ pc \notin {"load", "source", "aborted"} =>
                (h.sent = opts.urls /\ closed)
    /\ (opts.urls = <<>> /\ opts.urls_file # <<>>) =>
          /\ ~h.stdinRead
          /\ h.sent = SubSeq(file.lines, 1, pos)
          /\ closed => producer \in {"done", "panicked"}
    /\ (opts.urls = <<>> /\ opts.urls_file = <<>>) =>
          /\ ~h.fileOpened
          /\ h.sent = SubSeq(stdin, 1, pos)
          /\ closed => producer = "done"
    /\ h.got \o queue = h.sent

\* Literal URLs and a urls_file were both given: the run has ended with
\* exactly the literal URLs sent and the file never opened.
C12_Witness ==
    /\ pc = "done"
    /\ opts.urls # <<>>
    /\ opts.urls_file # <<>>
    /\ file.exists
    /\ file.lines # opts.urls
    /\ h.sent = opts.urls
    /\ h.got = opts.urls
    /\ ~h.fileOpened

\* C13: the processed counter counts every resolved attempt, success or
\* terminal failure, and with an out path the intermediate writes happen
\* exactly when it reaches 25, 50, ..., once each.
C13_FailuresCount ==
    /\ pc \in {"recv", "done"} => num_archived = h.resolved
    /\ opts.out # None =>
          /\ \A i \in DOMAIN h.checkpoints : h.checkpoints[i] = 25 * i
          /\ pc = "recv" => Len(h.checkpoints) = h.resolved \div 25

\* C14: a skipped line leaves everything as it was when the line was
\* dequeued: the store, the processed counter, the out file and the clock
\* are unchanged, archive_url was not called, nothing was waited for, and
\* control goes straight back to the iterator without the checkpoint test.
C14_SkipFrame ==
    h.dedup.kind = "skip" =>
        /\ pc \in {"recv", "done", "aborted"}
        /\ h.dedup.hit
        /\ urls = h.at.urls
        /\ num_archived = h.at.num_archived
        /\ h.allCalls = h.at.calls
        /\ h.checkpoints = h.at.checkpoints
        /\ now = h.at.now
        /\ h.calls = 0 /\ h.waits = 0 /\ h.inserts = 0 /\ h.cooldowns = 0
        /\ pc = "recv" => (disk = h.at.disk /\ h.opens = h.at.opens)

\* A line was skipped while num_archived was 24 and an out path was set:
\* the one intermediate write is the earlier one.
C14_Witness ==
    /\ pc = "recv"
    /\ h.dedup.kind = "skip"
    /\ opts.out # None
    /\ num_archived = 24
    /\ h.skipped = 3
    /\ h.checkpoints = <<24>>

\* The current line is between its dequeue and its skip or resolution.
InFlight == pc \in {"prefix", "attempt", "answered"}

\* C15: lines are dequeued in the order they were enqueued; every line
\* dequeued before the current one has been skipped or resolved, with all
\* of its calls answered; at most one archive_url call is unanswered, and
\* it is for the current line; the store holds what was loaded plus what
\* the main thread inserted for the lines it resolved.
C15_SerialInOrder ==
    /\ h.got \o queue = h.sent
    /\ Len(h.got) = next_idx
    /\ next_idx = h.resolved + h.skipped + (IF InFlight THEN 1 ELSE 0)
    /\ h.allCalls = h.resolved + h.allWaits + (IF pc = "answered" THEN 1 ELSE 0)
    /\ (InFlight \/ pc = "check") =>
          /\ line = Trim(h.got[next_idx])
          /\ line_idx = next_idx - 1
    /\ pc \in {"attempt", "answered"} => h.inserts = 0
    /\ pc = "check" => (h.inserts = 1 /\ line \in Keys(urls))
    /\ pc \notin {"load", "aborted"} =>
          /\ Keys(urls) = Keys(LoadStore(opts, h.disk0).urls) \cup Keys(h.written)
          /\ \A k \in Keys(urls) :
                urls[k] = IF k \in Keys(h.written) THEN h.first[k]
                          ELSE LoadStore(opts, h.disk0).urls[k]

\* The spawned thread has run ahead: a call for the second line is
\* unanswered while later lines wait on the channel.
C15_Witness ==
    /\ producer # "none"
    /\ pc = "answered"
    /\ next_idx = 2
    /\ h.got[1] # h.got[2]
    /\ h.resolved = 1
    /\ Len(queue) >= 2
    /\ queue[1] # queue[2]

\* The keys this run resolved with a new snapshot.
NewSnapshots == {k \in Keys(h.written) : h.answer[k] = "new"}

\* C16: the clock has advanced by one cooldown for every success with a
\* new snapshot and one backoff for every rate-limited answer, and by
\* nothing else; for the current line the cooldown is taken once, before
\* control returns to the iterator, exactly when the answer was a success
\* with a new snapshot.
C16_Cooldown ==
    /\ now = StartTime + Backoff * h.allWaits
                       + Cooldown * Cardinality(NewSnapshots)
    /\ pc \in {"attempt", "answered"} =>
          /\ h.cooldowns = 0
          /\ now = h.t0 + Backoff * h.waits
    /\ pc = "check" =>
          /\ h.cooldowns = IF result.ok /\ ~result.value.existing_snapshot
                           THEN 1 ELSE 0
          /\ now = h.t0 + Backoff * h.waits + Cooldown * h.cooldowns
    /\ h.dedup.kind = "skip" => (h.cooldowns = 0 /\ now = h.t0)

\* A new snapshot was reported after one rate-limited answer: one backoff
\* and one cooldown have passed since the line's dedup check.
C16_Witness ==
    /\ pc = "check"
    /\ result.ok
    /\ ~result.value.existing_snapshot
    /\ h.waits = 1
    /\ h.cooldowns = 1
    /\ now = h.t0 + Backoff + Cooldown
    /\ h.resolved = 2
    /\ h.failures = 1

\* C17: a record written by this run has an archived URL exactly when the
\* answer that resolved its line was a success; a failure record has no
\* archived URL and existing_snapshot = false; every key written is the
\* trimmed text of a dequeued line for which archive_url was called.
C17_StoreInvariant ==
    \A k \in Keys(h.written) :
        /\ k \in Keys(urls)
        /\ k \in Keys(h.answer)
        /\ urls[k].url # None <=> h.answer[k] \in {"new", "existing"}
        /\ h.answer[k] = "existing" <=> urls[k].existing_snapshot
        /\ h.answer[k] = "failed" =>
              (urls[k].url = None /\ ~urls[k].existing_snapshot)
        /\ Count(h.invocations, k) >= 1
        /\ \E i \in DOMAIN h.got : k = Trim(h.got[i])
        /\ k # <<>> => (~IsWhitespace(Head(k)) /\ ~IsWhitespace(k[Len(k)]))

\* The line " a " was archived under the key "a" and another line failed.
C17_Witness ==
    /\ pc = "done"
    /\ \E i \in DOMAIN h.got : h.got[i] = <<32, 97, 32>>
    /\ A \in Keys(h.written)
    /\ B \in Keys(h.written)
    /\ urls[A].url # None
    /\ urls[B].url = None
    /\ h.failures = 1

\* The client goes on answering rate-limited for as long as it is asked.
AlwaysLimited == stub = "limited"

\* C18: under fair scheduling, with a client that answers rate-limited
\* only finitely often per URL, a run that no fatal error aborts reaches
\* its final output and ends; it ends with the source exhausted and every
\* line that was sent dequeued and skipped or resolved; the main thread
\* does not stay at an empty, closed channel; and no final output is made
\* while a line is being attempted, so none at all once a client that
\* answers rate-limited for ever has been called.
C18_Termination ==
    /\ <>(pc = "done" \/ h.abort # "none" \/ AlwaysLimited)
    /\ (pc = "recv" /\ Drained) ~> (pc \in {"done", "aborted"})
    /\ [](pc = "done" =>
            /\ h.finals = 1
            /\ Drained
            /\ producer \in {"none", "done", "panicked"}
            /\ producer = "none" => h.sent = opts.urls
            /\ producer = "done" => h.sent = Source
            /\ h.got = h.sent
            /\ Len(h.sent) = h.resolved + h.skipped)
    /\ [](pc \in {"attempt", "answered"} => h.finals = 0)
    /\ []((AlwaysLimited /\ h.allCalls > 0) => (h.finals = 0 /\ Running))

\* A streamed run has ended with its final write after the client had
\* answered rate-limited on the way.
C18_Witness ==
    /\ pc = "done"
    /\ producer = "done"
    /\ h.finals = 1
    /\ opts.out # None
    /\ h.allWaits >= 1
    /\ h.got = file.lines
    /\ h.resolved = 2

\* C19: with streamed input the counter is the number of lines sent, or
\* one less while the thread is between send and fetch_add, and the index
\* shown for a line is at most the total shown for it plus one; with
\* literal URLs the counter is the length of the list from the first line
\* on, and the index shown never exceeds the total.
C19_ProgressTotal ==
    /\ opts.urls = <<>> =>
          /\ total_lines_count = Len(h.sent) - (IF producer = "count" THEN 1 ELSE 0)
          /\ prefix.index <= prefix.total + 1
    /\ opts.urls # <<>> =>
          /\ pc \notin {"load", "source", "aborted"} =>
                total_lines_count = Len(opts.urls)
          /\ prefix.index <= prefix.total
          /\ prefix.index > 0 => prefix.total = Len(opts.urls)
    /\ InFlight => prefix.index \in {0, line_idx, line_idx + 1}
    /\ pc \in {"attempt", "answered", "check"} => prefix.index = line_idx + 1

\* The second streamed line is shown as [2/1]: it was dequeued before the
\* thread had counted it.
C19_Witness ==
    /\ opts.urls = <<>>
    /\ pc = "attempt"
    /\ producer = "count"
    /\ prefix = [index |-> 2, total |-> 1]
====
